---- MODULE Spec2Model ----
(***************************************************************************)
(* Model of src/file.c: main() opens one shared library with dlopen,       *)
(* resolves "ModuleEntry" with dlsym, calls it with the library handle,    *)
(* and closes the library with dlclose.  The dynamic loader and the        *)
(* loaded library are the environment: what they will answer in a run is   *)
(* fixed in the variable world, chosen in Init.                            *)
(***************************************************************************)
EXTENDS Integers, Sequences, FiniteSets, TLC

\* ---- bounds on the environment's answers ----
MaxHandle == 3
MaxAddr == 3
MaxCloseErr == 1

\* ---- program constants ----
NULL == 0
CharBits == 8

NoStatus == 0 - 1

Handles == 1..MaxHandle
Addrs == 1..MaxAddr
\* values of the C type char returned by ModuleEntryFunc, as a byte
Chars == 0..(2^CharBits - 1)
\* dlclose returns 0 on success and a non-zero int on error
CloseRcs == (0 - MaxCloseErr)..MaxCloseErr

VARIABLES
  world,      \* what the platform answers in this run
  pc,         \* position in main
  lib,        \* void* lib
  entryFunc,  \* ModuleEntryFunc entryFunc
  closed,     \* dlclose(lib) has been called
  trace,      \* loader operations performed so far, in order
  errStream,  \* lines written to stderr (perror)
  outStream,  \* lines written to stdout (printf)
  status      \* value returned from main

vars == <<world, pc, lib, entryFunc, closed, trace, errStream, outStream, status>>

Worlds == [handle : {NULL} \cup Handles,
           sym    : {NULL} \cup Addrs,
           ret    : Chars,
           rc     : CloseRcs]

\* one loader operation: which call, the function called (invoke only),
\* its argument and its result
Op(o, f, a, r) == [op |-> o, fn |-> f, arg |-> a, res |-> r]

\* C truth test: `!v` is true exactly when v compares equal to zero
IsFalsyNeg(v) == v <= 0
IsFalsy(v) == v = 0

Init ==
  /\ world \in Worlds
  /\ pc = "dlopen"
  /\ lib = NULL
  /\ entryFunc = NULL
  /\ closed = FALSE
  /\ trace = <<>>
  /\ errStream = <<>>
  /\ outStream = <<>>
  /\ status = NoStatus

\* lines 9-13: lib = dlopen(path, RTLD_LAZY); if(!lib) { perror; return 1; }
DlopenNoCheck ==
  /\ pc = "dlopen"
  /\ lib' = world.handle
  /\ trace' = Append(trace, Op("load", NULL, NULL, world.handle))
  /\ pc' = "dlsym"
  /\ UNCHANGED <<world, entryFunc, closed, errStream, outStream, status>>

DlopenRetry ==
  /\ pc = "dlopen"
  /\ lib' = world.handle
  /\ trace' = Append(trace, Op("load", NULL, NULL, world.handle))
  /\ IF IsFalsy(world.handle)
       THEN IF Len(trace) = 0
              THEN /\ UNCHANGED <<errStream, status, pc>>
              ELSE /\ errStream' = Append(errStream, "dlopen")
                   /\ status' = 1
                   /\ pc' = "exited"
       ELSE /\ pc' = "dlsym"
            /\ UNCHANGED <<errStream, status>>
  /\ UNCHANGED <<world, entryFunc, closed, outStream>>

Dlopen ==
  /\ pc = "dlopen"
  /\ lib' = world.handle
  /\ trace' = Append(trace, Op("load", NULL, NULL, world.handle))
  /\ IF IsFalsy(world.handle)
       THEN /\ errStream' = Append(errStream, "dlopen")
            /\ status' = 1
            /\ pc' = "exited"
       ELSE /\ pc' = "dlsym"
            /\ UNCHANGED <<errStream, status>>
  /\ UNCHANGED <<world, entryFunc, closed, outStream>>

\* lines 15-21: entryFunc = dlsym(lib, "ModuleEntry");
\* if (!entryFunc) { perror; dlclose(lib); return 1; }
DlsymNoClose ==
  /\ pc = "dlsym"
  /\ entryFunc' = world.sym
  /\ IF IsFalsy(world.sym)
       THEN /\ trace' = Append(trace, Op("resolve", NULL, lib, world.sym))
            /\ errStream' = Append(errStream, "dlsym")
            /\ status' = 1
            /\ pc' = "exited"
       ELSE /\ trace' = Append(trace, Op("resolve", NULL, lib, world.sym))
            /\ pc' = "invoke"
            /\ UNCHANGED <<errStream, status>>
  /\ UNCHANGED <<world, lib, closed, outStream>>

DlsymFallThrough ==
  /\ pc = "dlsym"
  /\ entryFunc' = world.sym
  /\ IF IsFalsy(world.sym)
       THEN /\ trace' = Append(Append(trace,
                           Op("resolve", NULL, lib, world.sym)),
                           Op("unload", NULL, lib, world.rc))
            /\ errStream' = Append(errStream, "dlsym")
            /\ closed' = TRUE
            /\ pc' = "invoke"
            /\ UNCHANGED status
       ELSE /\ trace' = Append(trace, Op("resolve", NULL, lib, world.sym))
            /\ pc' = "invoke"
            /\ UNCHANGED <<errStream, closed, status>>
  /\ UNCHANGED <<world, lib, outStream>>

Dlsym ==
  /\ pc = "dlsym"
  /\ entryFunc' = world.sym
  /\ IF IsFalsy(world.sym)
       THEN \* the result of this dlclose is not looked at
            /\ trace' = Append(Append(trace,
                           Op("resolve", NULL, lib, world.sym)),
                           Op("unload", NULL, lib, world.rc))
            /\ errStream' = Append(errStream, "dlsym")
            /\ closed' = TRUE
            /\ status' = 1
            /\ pc' = "exited"
       ELSE /\ trace' = Append(trace, Op("resolve", NULL, lib, world.sym))
            /\ pc' = "invoke"
            /\ UNCHANGED <<errStream, closed, status>>
  /\ UNCHANGED <<world, lib, outStream>>

\* lines 23-26: if(!entryFunc(lib)) { printf("failed to init\n"); return 1; }
InvokeWithCleanup ==
  /\ pc = "invoke"
  /\ IF IsFalsy(world.ret)
       THEN /\ trace' = Append(Append(trace,
                           Op("invoke", entryFunc, lib, world.ret)),
                           Op("unload", NULL, lib, world.rc))
            /\ outStream' = Append(outStream, "failed to init")
            /\ closed' = TRUE
            /\ status' = 1
            /\ pc' = "exited"
       ELSE /\ trace' = Append(trace, Op("invoke", entryFunc, lib, world.ret))
            /\ pc' = "dlclose"
            /\ UNCHANGED <<outStream, closed, status>>
  /\ UNCHANGED <<world, lib, entryFunc, errStream>>

Invoke ==
  /\ pc = "invoke"
  /\ trace' = Append(trace, Op("invoke", entryFunc, lib, world.ret))
  /\ IF IsFalsy(world.ret)
       THEN /\ outStream' = Append(outStream, "failed to init")
            /\ status' = 1
            /\ pc' = "exited"
       ELSE /\ pc' = "dlclose"
            /\ UNCHANGED <<outStream, status>>
  /\ UNCHANGED <<world, lib, entryFunc, closed, errStream>>

\* lines 28-33: if (dlclose(lib)) { perror; return 1; } return 0;
DlcloseSkipped ==
  /\ pc = "dlclose"
  /\ status' = 0
  /\ pc' = "exited"
  /\ UNCHANGED <<world, lib, entryFunc, closed, trace, errStream, outStream>>

DlcloseIgnoreRc ==
  /\ pc = "dlclose"
  /\ trace' = Append(trace, Op("unload", NULL, lib, world.rc))
  /\ closed' = TRUE
  /\ status' = 0
  /\ pc' = "exited"
  /\ UNCHANGED <<world, lib, entryFunc, errStream, outStream>>

Dlclose ==
  /\ pc = "dlclose"
  /\ trace' = Append(trace, Op("unload", NULL, lib, world.rc))
  /\ closed' = TRUE
  /\ IF ~IsFalsy(world.rc)
       THEN /\ errStream' = Append(errStream, "dlclose")
            /\ status' = 1
       ELSE /\ status' = 0
            /\ UNCHANGED errStream
  /\ pc' = "exited"
  /\ UNCHANGED <<world, lib, entryFunc, outStream>>

Next == Dlopen \/ Dlsym \/ Invoke \/ Dlclose

Spec == Init /\ [][Next]_vars

\* ---- vocabulary of the properties ----
Ops == [i \in DOMAIN trace |-> trace[i].op]
Count(o) == Cardinality({i \in DOMAIN trace : trace[i].op = o})
Exited == pc = "exited"
\* a handle was obtained and no unload has been performed on it
HandleOpen == lib # NULL /\ ~closed

\* a performed operation reported failure
Failed(e) ==
  \/ e.op = "load" /\ e.res = NULL
  \/ e.op = "resolve" /\ e.res = NULL
  \/ e.op = "invoke" /\ e.res = 0
  \/ e.op = "unload" /\ e.res # 0

\* the environment of the run
LoadWillSucceed == world.handle # NULL
ResolveWillSucceed == world.sym # NULL
EntryWillSucceed == world.ret # 0
UnloadWillSucceed == world.rc = 0

TypeOK ==
  /\ world \in Worlds
  /\ pc \in {"dlopen", "dlsym", "invoke", "dlclose", "exited"}
  /\ lib \in {NULL} \cup Handles
  /\ entryFunc \in {NULL} \cup Addrs
  /\ closed \in BOOLEAN
  /\ status \in {NoStatus, 0, 1}

FullSequence == <<"load", "resolve", "invoke", "unload">>

\* ---- properties ----

\* C1: when load, resolve, the entry call and unload all succeed, the program
\* exits with status 0 and the complete trace of loader operations is exactly
\* load, resolve, invoke, unload, in that order.
C1_SuccessRun ==
  (Exited /\ LoadWillSucceed /\ ResolveWillSucceed
          /\ EntryWillSucceed /\ UnloadWillSucceed)
    => /\ status = 0
       /\ Ops = FullSequence
       /\ ~Failed(trace[1]) /\ ~Failed(trace[2])
       /\ ~Failed(trace[3]) /\ ~Failed(trace[4])

C1_Witness ==
  /\ Exited /\ status = 0
  /\ LoadWillSucceed /\ ResolveWillSucceed
  /\ EntryWillSucceed /\ UnloadWillSucceed
  /\ Len(trace) = 4

\* the four steps were all performed and none reported failure
FourStepsSucceeded ==
  /\ Ops = FullSequence
  /\ \A i \in DOMAIN trace : ~Failed(trace[i])

\* C2: at exit the status is 0 exactly when all four steps succeeded, and it
\* is exactly 1 in every other run, whatever the kind of failure.
C2_ExitStatus ==
  Exited => /\ status \in {0, 1}
            /\ (status = 0) <=> FourStepsSucceeded
            /\ (status = 1) <=> (\E i \in DOMAIN trace : Failed(trace[i]))

C2_Witness ==
  /\ Exited /\ status = 1
  /\ Len(trace) = 4 /\ trace[4].op = "unload" /\ trace[4].res < 0

\* C3: when the load fails, the program exits non-zero after exactly one load
\* attempt, and no resolve, invoke or unload is ever performed in that run.
C3_LoadFailure ==
  ~LoadWillSucceed =>
    /\ \A i \in DOMAIN trace : trace[i].op = "load" /\ i = 1
    /\ pc \in {"dlopen", "exited"}
    /\ Exited => (status # 0 /\ status # NoStatus /\ Ops = <<"load">>
                  /\ trace[1].res = NULL)

C3_Witness ==
  Exited /\ ~LoadWillSucceed /\ Len(trace) = 1 /\ lib = NULL

\* C4: when load succeeds but resolving the entry symbol fails, no entry
\* function is ever invoked, the program exits non-zero, and an unload has
\* been performed on the library handle before the exit.
C4_ResolveFailure ==
  (LoadWillSucceed /\ ~ResolveWillSucceed) =>
    /\ Count("invoke") = 0
    /\ Exited => /\ status # 0 /\ status # NoStatus
                 /\ closed
                 /\ \E i \in DOMAIN trace :
                      trace[i].op = "unload" /\ trace[i].arg = world.handle

C4_Witness ==
  /\ Exited /\ LoadWillSucceed /\ ~ResolveWillSucceed
  /\ Ops = <<"load", "resolve", "unload">>

\* C5: when load and resolve succeed but the entry call returns zero, the
\* program exits non-zero after exactly load, resolve, invoke; no unload is
\* attempted and the handle is still open at exit.
C5_EntryFailure ==
  (Exited /\ LoadWillSucceed /\ ResolveWillSucceed /\ ~EntryWillSucceed) =>
    /\ status # 0 /\ status # NoStatus
    /\ Ops = <<"load", "resolve", "invoke">>
    /\ Count("unload") = 0
    /\ HandleOpen

C5_Witness ==
  /\ Exited /\ LoadWillSucceed /\ ResolveWillSucceed /\ ~EntryWillSucceed
  /\ Len(trace) = 3 /\ trace[3].op = "invoke" /\ trace[3].res = 0

\* C6: when load, resolve and invoke succeed but unload reports failure, the
\* program exits non-zero, and only after each of the four steps has been
\* attempted exactly once.
C6_UnloadFailure ==
  (Exited /\ LoadWillSucceed /\ ResolveWillSucceed
          /\ EntryWillSucceed /\ ~UnloadWillSucceed) =>
    /\ status # 0 /\ status # NoStatus
    /\ Ops = FullSequence
    /\ trace[4].res # 0

C6_Witness ==
  /\ Exited /\ LoadWillSucceed /\ ResolveWillSucceed
  /\ EntryWillSucceed /\ ~UnloadWillSucceed
  /\ Len(trace) = 4 /\ Len(errStream) = 1

\* C7: once an unload has been performed on the handle, no resolve, no invoke
\* and no second unload ever follows: an unload is always the last loader
\* operation of the run, and the program has then left main.
C7_NoUseAfterUnload ==
  /\ \A i \in DOMAIN trace : trace[i].op = "unload" => i = Len(trace)
  /\ closed => Exited
  /\ closed <=> Count("unload") > 0

C7_Witness ==
  Exited /\ closed /\ Count("unload") = 1 /\ Count("invoke") = 1

\* C8: every failing run writes exactly one diagnostic line, on the error
\* stream, before exiting non-zero; the successful run writes none.
C8_DiagnosticOnErrorStream ==
  Exited => IF status # 0
              THEN Len(errStream) = 1 /\ Len(outStream) = 0
              ELSE Len(errStream) = 0 /\ Len(outStream) = 0

\* C9: in a failing run in which a handle was obtained, a resolve failure or
\* an unload failure leaves the handle released at exit; the only run that
\* exits with the handle still open is the one where the entry call
\* returned zero.
C9_OnlyEntryFailureLeaks ==
  (Exited /\ LoadWillSucceed) =>
    /\ (\E i \in DOMAIN trace :
          trace[i].op \in {"resolve", "unload"} /\ Failed(trace[i]))
         => ~HandleOpen
    /\ HandleOpen <=> (ResolveWillSucceed /\ ~EntryWillSucceed)

C9_Witness ==
  /\ Exited /\ LoadWillSucceed /\ ~ResolveWillSucceed
  /\ status = 1 /\ ~HandleOpen /\ closed

\* each step is attempted at most once, resolve only after a successful load,
\* invoke only after a successful resolve
NoRetryInOrder ==
  /\ \A o \in {"load", "resolve", "invoke", "unload"} : Count(o) <= 1
  /\ \A i \in DOMAIN trace :
       /\ trace[i].op = "resolve" =>
            \E j \in 1..(i-1) : trace[j].op = "load" /\ ~Failed(trace[j])
       /\ trace[i].op = "invoke" =>
            \E j \in 1..(i-1) : trace[j].op = "resolve" /\ ~Failed(trace[j])

\* C10 as stated: no step is retried, the steps come in order, and once any
\* step has reported failure no further step of the sequence is attempted.
C10_FailureImmediatelyFatal ==
  /\ NoRetryInOrder
  /\ \A i \in DOMAIN trace : Failed(trace[i]) => i = Len(trace)

\* C10 amended: as above, except that a failed resolve is followed by exactly
\* one unload of the handle before the program reaches its failed state; in
\* every case the program has exited non-zero once a failure is in the trace.
C10_FailureFatalAfterCleanup ==
  /\ NoRetryInOrder
  /\ \A i \in DOMAIN trace : Failed(trace[i]) =>
       /\ Exited /\ status = 1
       /\ \/ i = Len(trace)
          \/ /\ trace[i].op = "resolve"
             /\ Len(trace) = i + 1
             /\ trace[i + 1].op = "unload"
             /\ trace[i + 1].arg = lib

C10_Witness ==
  /\ Exited /\ Len(trace) = 3
  /\ Failed(trace[2]) /\ trace[3].op = "unload" /\ Failed(trace[3])
====
